---- MODULE Spec2Model ----
(***************************************************************************)
(* Model of hsfm.pipeline.pipeline.Pipeline (run, run_multi and the        *)
(* helper methods they call) together with the part of hsfm.utils that the *)
(* pipeline reaches (dem_align_custom, run_command).                       *)
(*                                                                         *)
(* Under Spec one behaviour is one Pipeline object and one call of run or   *)
(* run_multi.  Under SpecEq a call of run may be followed by a call of     *)
(* run_multi on a second Pipeline built from the same arguments, with the  *)
(* collaborators answering as before, so that the two can be compared.     *)
(* Under SpecSeq a call that has ended may be followed by another call of  *)
(* run or run_multi on the same Pipeline object.                           *)
(* SpecBatch models hsfm.batch.batch.batch_generate_cameras and            *)
(* calculate_heading_from_metadata, and SpecCmd the reading loop of        *)
(* hsfm.utils.run_command running beside its child process; each has its   *)
(* own variable and leaves the Pipeline idle.                              *)
(* The file system is a function from paths to file contents; trace,       *)
(* writes, checks and iterPaths are history variables recording what the   *)
(* call did.  Code of hsfm.metashape, hsfm.core and hsfm.asp is outside    *)
(* the sources at hand and is modelled by its contract.  Three things the  *)
(* pipeline does not control can go wrong: the image directory may hold a  *)
(* different number of images than the snapshot has rows, a DEM-producing  *)
(* collaborator may return without its raster, and an offset report may    *)
(* raise.                                                                  *)
(*                                                                         *)
(* Pipeline._nuth_kaab_align_routine passes self.output_path as the third  *)
(* positional argument of dem_align_custom, which is `mode`; log_directory *)
(* stays None, run_command returns None and open(None) raises TypeError.   *)
(* Lines 223-239 of Pipeline.run are therefore never executed and have no  *)
(* action here.                                                            *)
(***************************************************************************)
EXTENDS Integers, Sequences, FiniteSets, TLC

\* ------------------------------------------------------------------ bounds
MaxIter == 2
NumCameras == 2

Cameras == 1..NumCameras

\* ------------------------------------------------------------------ values
\* Python None, an unbound local, and "run has not returned".
NoneValue == <<"None">>
Unbound == <<"unbound">>
NoResult == <<"no result">>

\* os.path.join on paths kept as sequences of components
join(base, name) == Append(base, name)

\* constructor arguments
OutputPath == <<"out">>
InitialMetadataFile == <<"in", "metashape_metadata.csv">>
ReferenceDem == <<"in", "reference_dem.tif">>

\* raster footprints <<minx, miny, maxx, maxy>>
ReferenceBounds == <<1, 1, 4, 4>>
DemBounds == { <<2, 2, 3, 3>>, <<1, 1, 4, 4>>, <<1, 2, 3, 3>>, <<0, 2, 3, 3>> }

\* the DEM file a collaborator named was not produced: nothing to open
NoRaster == <<0, 0, 0, 0>>

\* a test that wants the inner rectangle clear of the outer one's boundary
contains_properly(a, b) ==
    /\ a[1] < b[1]
    /\ a[2] < b[2]
    /\ b[3] < a[3]
    /\ b[4] < a[4]

\* shapely: box(*ref).contains(box(*src)) for non-degenerate rectangles
contains(a, b) ==
    /\ a[1] <= b[1]
    /\ a[2] <= b[2]
    /\ b[3] <= a[3]
    /\ b[4] <= a[4]

\* ------------------------------------------------------- snapshot contents
InitialAlt(c) == 10 * c
SfmShift == 1
Transforms == {0, 1}

CsvFile(rows) == [kind |-> "csv", rows |-> rows]
OtherFile(k) == [kind |-> k, rows |-> <<>>]

InitialSnapshot(ypr) ==
    [c \in Cameras |-> [alt |-> InitialAlt(c), yaw |-> ypr, pitch |-> ypr, roll |-> ypr]]

\* a reset that forgets the roll column
ResetRows_keeps_roll(rows) ==
    [c \in DOMAIN rows |-> [rows[c] EXCEPT !.yaw = 0, !.pitch = 0]]

\* df["yaw"] = df["pitch"] = df["roll"] = 0
ResetRows(rows) ==
    [c \in DOMAIN rows |-> [rows[c] EXCEPT !.yaw = 0, !.pitch = 0, !.roll = 0]]

\* hsfm.metashape.update_ba_camera_metadata: the aligned cameras with their
\* bundle-adjusted positions, and the cameras the engine could not align
update_ba_camera_metadata(proj, rows) ==
    [ba |-> [c \in (DOMAIN rows) \ proj.unaligned |->
                [rows[c] EXCEPT !.alt = rows[c].alt + SfmShift]],
     unaligned |-> [c \in (DOMAIN rows) \cap proj.unaligned |-> rows[c]]]

\* hsfm.core.metadata_transform: positions mapped through the transform
metadata_transform(rows, t) ==
    [c \in DOMAIN rows |-> [rows[c] EXCEPT !.alt = rows[c].alt + t]]

\* ------------------------------------------------------------ Pipeline
BundleAdjustedName == "metaflow_bundle_adj_metadata.csv"
UnalignedName == "metaflow_bundle_adj_unaligned_metadata.csv"

\* a copy-and-paste slip: the aligned snapshot gets the bundle-adjusted name
AlignedName_same_as_bundle_adjusted == "metaflow_bundle_adj_metadata.csv"

AlignedName == "aligned_bundle_adj_metadata.csv"
NuthedName == "nuth_aligned_bundle_adj_metadata.csv"
ClippedName == "reference_dem_clipped.tif"

PipelineInit(rot) ==
    [rotation_enabled |-> rot,
     output_path |-> OutputPath,
     original_output_path |-> OutputPath,
     input_images_metadata_file |-> InitialMetadataFile,
     bundle_adjusted_metadata_file |->
         join(OutputPath, BundleAdjustedName),
     bundle_adjusted_unaligned_metadata_file |->
         join(OutputPath, UnalignedName),
     aligned_bundle_adjusted_metadata_file |->
         join(OutputPath, AlignedName),
     nuthed_aligned_bundle_adjusted_metadata_file |->
         join(OutputPath, NuthedName),
     clipped_reference_dem_file |->
         join(OutputPath, ClippedName)]

\* a variant that also moves the clipped reference DEM into the new directory
update_output_paths_moves_clipped(s, new_output_path) ==
    [s EXCEPT
       !.output_path = new_output_path,
       !.bundle_adjusted_metadata_file =
           join(new_output_path, BundleAdjustedName),
       !.bundle_adjusted_unaligned_metadata_file =
           join(new_output_path, UnalignedName),
       !.aligned_bundle_adjusted_metadata_file =
           join(new_output_path, AlignedName),
       !.nuthed_aligned_bundle_adjusted_metadata_file =
           join(new_output_path, NuthedName),
       !.clipped_reference_dem_file =
           join(new_output_path, ClippedName)]

update_output_paths(s, new_output_path) ==
    [s EXCEPT
       !.output_path = new_output_path,
       !.bundle_adjusted_metadata_file =
           join(new_output_path, BundleAdjustedName),
       !.bundle_adjusted_unaligned_metadata_file =
           join(new_output_path, UnalignedName),
       !.aligned_bundle_adjusted_metadata_file =
           join(new_output_path, AlignedName),
       !.nuthed_aligned_bundle_adjusted_metadata_file =
           join(new_output_path, NuthedName)]

set_input_images_metadata_file(s, updated) ==
    [s EXCEPT !.input_images_metadata_file = updated]

\* plot files of _compare_camera_positions
PlotNames ==
    << "initial_vs_bundle_adj_offsets.png",
       "bundle_adj__vs_bundle_adj_and_aligned_offsets.png",
       "bundle_adj_and_aligned_vs_bundle_adj_and_aligned_and_nuthed_offsets.png",
       "og_vs_final_offsets.png" >>

\* the paths a run of pipeline s writes its artifacts to
ArtifactPaths(s) ==
    { s.bundle_adjusted_metadata_file,
      s.bundle_adjusted_unaligned_metadata_file,
      s.aligned_bundle_adjusted_metadata_file,
      s.nuthed_aligned_bundle_adjusted_metadata_file,
      s.clipped_reference_dem_file }
    \cup { join(s.output_path, PlotNames[k]) : k \in 1..Len(PlotNames) }

\* ------------------------------------------------------------------ state
VARIABLES
    self,                 \* the Pipeline object's fields
    fs,                   \* file system: path -> content
    pc,                   \* position in run / run_multi
    mode,                 \* "run" or "run_multi": the public method called
    iterations,           \* run_multi argument
    export_orthomosaic,   \* argument of run / run_multi
    run_rotation,         \* rotation_enabled parameter of the current run
    i,                    \* run_multi loop variable
    rotation_enabled,     \* run_multi local
    updated_cameras,      \* run_multi local
    result,               \* value returned by the public method
    error,                \* exception that ended the call, or "none"
    project,              \* state of the Metashape project
    dem,                  \* bounds of the extracted DEM
    aligned_dem,          \* bounds of the pc_align output DEM
    transform,            \* transform returned by pc_align
    unaligned_cameras_df, \* run local
    n_images,             \* number of image files in input_images_path
    trace,                \* collaborator / stage invocations, in order
    writes,               \* file writes, in order
    checks,               \* activation checks, in order
    iterPaths,            \* artifact paths of each started iteration
    call,                 \* 1, or 2 for the second call of SpecEq / SpecSeq
    first,                \* what call 1 did, kept for comparison
    batch,                \* a call of a function of hsfm.batch.batch
    cmd                   \* a call of hsfm.utils.run_command and its child

vars == << self, fs, pc, mode, iterations, export_orthomosaic, run_rotation, i,
           rotation_enabled, updated_cameras, result, error, project, dem,
           aligned_dem, transform, unaligned_cameras_df, trace, writes, checks,
           iterPaths, call, first, n_images, batch, cmd >>

\* a bug that starts run_multi with rotation disabled
run_multi_rotation_never_enabled(s) == FALSE

\* a bug that enables rotation in the first iteration whatever the constructor got
run_multi_rotation_always_enabled(s) == TRUE

\* run_multi: rotation_enabled = self.rotation_enabled
run_multi_rotation(s) == s.rotation_enabled

NoProject == [built |-> FALSE, unaligned |-> {}]

\* the record kept of call 1: the files it started from, its rotation
\* argument, what it did and what its collaborators answered
NoFirst(files) ==
    [fs0 |-> files, rot |-> FALSE, trace |-> <<>>, fs |-> <<>>,
     result |-> NoResult, error |-> "none", checks |-> <<>>,
     unaligned |-> {}, dem |-> NoRaster,
     aligned_dem |-> NoRaster, transform |-> 0]

\* no function of hsfm.batch.batch has been called
BatchIdle ==
    [pc |-> "idle", entry |-> "none", manual |-> FALSE, table |-> << >>,
     globbed |-> << >>, image_list |-> << >>, i |-> 0, heading |-> Unbound,
     headings |-> << >>, df |-> << >>, has_df |-> FALSE,
     principal_point_px |-> Unbound, calls |-> << >>, error |-> "none"]

\* run_command has not been called
CmdIdle ==
    [pc |-> "idle", log_directory |-> FALSE, verbose |-> FALSE, emitted |-> 0,
     exited |-> FALSE, pipe |-> << >>, log |-> << >>, printed |-> << >>]

Init ==
    /\ batch = BatchIdle
    /\ cmd = CmdIdle
    /\ \E rot \in BOOLEAN :
          /\ self = PipelineInit(rot)
          /\ rotation_enabled = run_multi_rotation(self)
    /\ \E ypr \in {0, 5} :
          fs = (InitialMetadataFile :> CsvFile(InitialSnapshot(ypr)))
                 @@ (ReferenceDem :> OtherFile("tif"))
    /\ mode \in {"run", "run_multi"}
    /\ pc = IF mode = "run" THEN "run" ELSE "run_multi"
    /\ iterations \in IF mode = "run" THEN {0} ELSE 0..MaxIter
    /\ export_orthomosaic \in BOOLEAN
    /\ run_rotation \in IF mode = "run" THEN BOOLEAN ELSE {TRUE}
    /\ i = 0
    /\ updated_cameras = Unbound
    /\ result = NoResult
    /\ error = "none"
    /\ project = NoProject
    /\ dem = NoRaster
    /\ aligned_dem = NoRaster
    /\ transform = 0
    /\ unaligned_cameras_df = {}
    /\ n_images \in {NumCameras, NumCameras + 1}
    /\ trace = <<>>
    /\ writes = <<>>
    /\ checks = <<>>
    /\ iterPaths = <<>>
    /\ call = 1
    /\ first = NoFirst(fs)

\* ---------------------------------------------------------------- helpers
Stage(name, rot, args) == [stage |-> name, iter |-> i, rot |-> rot, args |-> args]

Write(stage, path) ==
    [stage |-> stage, iter |-> i, path |-> path, existed |-> path \in DOMAIN fs]

to_csv(f, path, content) ==
    [p \in (DOMAIN f) \cup {path} |-> IF p = path THEN content ELSE f[p]]

read_csv_ok(path) == path \in DOMAIN fs

\* an exception leaves run and, uncaught, run_multi
Raise(e) ==
    /\ pc' = "done"
    /\ error' = e

\* Collaborator answers.  In a second call the collaborators behave as they
\* did in call 1.
ActivationAnswers ==
    IF call = 2 /\ first.checks # << >>
      THEN {first.checks[1].activated}
      ELSE BOOLEAN
UnalignedAnswers == IF call = 2 THEN {first.unaligned} ELSE SUBSET Cameras
DemAnswers == IF call = 2 THEN {first.dem} ELSE DemBounds \cup {NoRaster}
AlignedDemAnswers ==
    IF call = 2 THEN {first.aligned_dem} ELSE DemBounds \cup {NoRaster}
TransformAnswers == IF call = 2 THEN {first.transform} ELSE Transforms

\* does images2las refuse a directory whose image count differs from the
\* number of rows of the snapshot?
SfmRejectAnswers == IF call = 2 THEN {first.error = "SfmError"} ELSE BOOLEAN

\* the offset reports invoked in trace t
ReportsIn(t) == SelectSeq(t, LAMBDA e : e.stage = "_compare_camera_positions")

\* does the next offset report raise while computing or plotting?
ReportFailAnswers ==
    IF call = 2
      THEN {first.error = "ReportError"
              /\ Len(ReportsIn(first.trace)) = Len(ReportsIn(trace)) + 1}
      ELSE BOOLEAN

\* the failures that come from outside the pipeline's own code
EnvErrors == {"SfmError", "ReportError", "RasterioIOError"}

harness == << call, first >>

\* the functions modelled apart from the Pipeline
apart == << batch, cmd >>

\* ------------------------------------------------------------- run_multi
\* for i in range(0, iterations): _update_output_paths(...); run(...)
run_multi_iterate ==
    /\ pc = "run_multi"
    /\ i < iterations
    /\ self' = update_output_paths(self,
                    join(self.original_output_path, ToString(i)))
    /\ run_rotation' = rotation_enabled
    /\ iterPaths' = Append(iterPaths, ArtifactPaths(self'))
    /\ pc' = "run"
    /\ UNCHANGED << fs, mode, iterations, export_orthomosaic, i,
                    rotation_enabled, updated_cameras, result, error, project,
                    dem, aligned_dem, transform, unaligned_cameras_df, trace,
                    writes, checks, harness, n_images, apart >>

\* a variant that hands back the input snapshot when the loop body never ran
run_multi_return_input_if_unbound ==
    /\ pc = "run_multi"
    /\ i >= iterations
    /\ pc' = "done"
    /\ result' = IF updated_cameras = Unbound
                   THEN self.input_images_metadata_file
                   ELSE updated_cameras
    /\ UNCHANGED << self, fs, mode, iterations, export_orthomosaic,
                    run_rotation, i, rotation_enabled, updated_cameras, error,
                    project, dem, aligned_dem, transform, unaligned_cameras_df,
                    trace, writes, checks, iterPaths, harness, n_images, apart >>

\* return updated_cameras (unbound when the loop body never ran)
run_multi_return ==
    /\ pc = "run_multi"
    /\ i >= iterations
    /\ IF updated_cameras = Unbound
          THEN Raise("UnboundLocalError") /\ UNCHANGED result
          ELSE pc' = "done" /\ result' = updated_cameras /\ UNCHANGED error
    /\ UNCHANGED << self, fs, mode, iterations, export_orthomosaic,
                    run_rotation, i, rotation_enabled, updated_cameras, project,
                    dem, aligned_dem, transform, unaligned_cameras_df, trace,
                    writes, checks, iterPaths, harness, n_images, apart >>

\* ------------------------------------------------------------------- run
\* _is_metashape_activated() is false: print, the bare name `exit`, and the
\* implicit return None; in run_multi the loop body then continues
run_not_activated ==
    /\ pc = "run"
    /\ FALSE \in ActivationAnswers
    /\ checks' = Append(checks, [iter |-> i, activated |-> FALSE])
    /\ IF mode = "run"
          THEN /\ result' = NoneValue
               /\ pc' = "done"
               /\ UNCHANGED << self, updated_cameras, rotation_enabled, i >>
          ELSE /\ updated_cameras' = NoneValue
               /\ self' = set_input_images_metadata_file(self, NoneValue)
               /\ rotation_enabled' = FALSE
               /\ i' = i + 1
               /\ pc' = "run_multi"
               /\ UNCHANGED result
    /\ UNCHANGED << fs, mode, iterations, export_orthomosaic, run_rotation,
                    error, project, dem, aligned_dem, transform,
                    unaligned_cameras_df, trace, writes, iterPaths, harness, n_images, apart >>

\* a bug that tests the method object instead of its result: the stages run
\* whatever the activation check answered
run_activated_unchecked ==
    /\ pc = "run"
    /\ \E a \in ActivationAnswers :
          checks' = Append(checks, [iter |-> i, activated |-> a])
    /\ IF read_csv_ok(self.input_images_metadata_file)
          THEN pc' = "_reset_yaw_pitch_roll" /\ UNCHANGED error
          ELSE Raise("ValueError")
    /\ UNCHANGED << self, fs, mode, iterations, export_orthomosaic,
                    run_rotation, i, rotation_enabled, updated_cameras, result,
                    project, dem, aligned_dem, transform, unaligned_cameras_df,
                    trace, writes, iterPaths, harness, n_images, apart >>

\* _is_metashape_activated() is true: len(pd.read_csv(input file)) is printed
run_activated ==
    /\ pc = "run"
    /\ TRUE \in ActivationAnswers
    /\ checks' = Append(checks, [iter |-> i, activated |-> TRUE])
    /\ IF read_csv_ok(self.input_images_metadata_file)
          THEN pc' = "_reset_yaw_pitch_roll" /\ UNCHANGED error
          ELSE Raise("ValueError")
    /\ UNCHANGED << self, fs, mode, iterations, export_orthomosaic,
                    run_rotation, i, rotation_enabled, updated_cameras, result,
                    project, dem, aligned_dem, transform, unaligned_cameras_df,
                    trace, writes, iterPaths, harness, n_images, apart >>

\* _run_metashape, first statement: the input snapshot is rewritten in place
reset_yaw_pitch_roll ==
    /\ pc = "_reset_yaw_pitch_roll"
    /\ LET path == self.input_images_metadata_file
       IN /\ fs' = to_csv(fs, path, CsvFile(ResetRows(fs[path].rows)))
          /\ writes' = Append(writes, Write("_reset_yaw_pitch_roll", path))
          /\ trace' = Append(trace, Stage("_reset_yaw_pitch_roll", FALSE, <<path>>))
    /\ pc' = "_run_metashape"
    /\ UNCHANGED << self, mode, iterations, export_orthomosaic, run_rotation,
                    i, rotation_enabled, updated_cameras, result, error,
                    project, dem, aligned_dem, transform, unaligned_cameras_df,
                    checks, iterPaths, harness, n_images, apart >>

\* a bug that extracts the first orthomosaic whatever export_orthomosaic says
after_run_metashape_always_ortho == "_extract_orthomosaic"

\* if export_orthomosaic: _ = self._extract_orthomosaic()
after_run_metashape ==
    IF export_orthomosaic THEN "_extract_orthomosaic" ELSE "_extract_dem"

\* the image directory and the input snapshot disagree about the number of
\* images
count_mismatch ==
    n_images # Cardinality(DOMAIN fs[self.input_images_metadata_file].rows)

\* _run_metashape, second statement: hsfm.metashape.images2las is called
\* whatever the counts are, and may refuse them
run_metashape_rejects ==
    /\ pc = "_run_metashape"
    /\ count_mismatch
    /\ TRUE \in SfmRejectAnswers
    /\ trace' = Append(trace, Stage("_run_metashape", run_rotation,
                    <<self.input_images_metadata_file, self.output_path>>))
    /\ Raise("SfmError")
    /\ UNCHANGED << self, fs, mode, iterations, export_orthomosaic,
                    run_rotation, i, rotation_enabled, updated_cameras, result,
                    project, dem, aligned_dem, transform, unaligned_cameras_df,
                    writes, checks, iterPaths, harness, n_images, apart >>

\* _run_metashape, second statement: hsfm.metashape.images2las
run_metashape ==
    /\ pc = "_run_metashape"
    /\ count_mismatch => FALSE \in SfmRejectAnswers
    /\ \E U \in UnalignedAnswers :
          project' = [built |-> TRUE, unaligned |-> U]
    /\ trace' = Append(trace, Stage("_run_metashape", run_rotation,
                    <<self.input_images_metadata_file, self.output_path>>))
    /\ pc' = after_run_metashape
    /\ UNCHANGED << self, fs, mode, iterations, export_orthomosaic,
                    run_rotation, i, rotation_enabled, updated_cameras, result,
                    error, dem, aligned_dem, transform, unaligned_cameras_df,
                    writes, checks, iterPaths, harness, n_images, apart >>

\* if export_orthomosaic: _extract_orthomosaic()
extract_orthomosaic ==
    /\ pc = "_extract_orthomosaic"
    /\ trace' = Append(trace, Stage("_extract_orthomosaic", FALSE, <<self.output_path>>))
    /\ pc' = "_extract_dem"
    /\ UNCHANGED << self, fs, mode, iterations, export_orthomosaic,
                    run_rotation, i, rotation_enabled, updated_cameras, result,
                    error, project, dem, aligned_dem, transform,
                    unaligned_cameras_df, writes, checks, iterPaths, harness, n_images, apart >>

\* dem = _extract_dem(point_cloud_file)
extract_dem ==
    /\ pc = "_extract_dem"
    /\ \E b \in DemAnswers : dem' = b
    /\ trace' = Append(trace, Stage("_extract_dem", FALSE, <<ReferenceDem>>))
    /\ pc' = "_update_camera_data"
    /\ UNCHANGED << self, fs, mode, iterations, export_orthomosaic,
                    run_rotation, i, rotation_enabled, updated_cameras, result,
                    error, project, aligned_dem, transform,
                    unaligned_cameras_df, writes, checks, iterPaths, harness, n_images, apart >>

\* a bug that drops the unaligned cameras without saving them
update_camera_data_drops_unaligned ==
    /\ pc = "_update_camera_data"
    /\ LET out == update_ba_camera_metadata(project,
                       fs[self.input_images_metadata_file].rows)
       IN /\ fs' = to_csv(fs, self.bundle_adjusted_metadata_file, CsvFile(out.ba))
          /\ writes' = Append(writes,
                Write("_update_camera_data", self.bundle_adjusted_metadata_file))
          /\ unaligned_cameras_df' = DOMAIN out.unaligned
    /\ trace' = Append(trace, Stage("_update_camera_data", FALSE,
                    <<self.input_images_metadata_file>>))
    /\ pc' = "_compare_camera_positions_1"
    /\ UNCHANGED << self, mode, iterations, export_orthomosaic, run_rotation,
                    i, rotation_enabled, updated_cameras, result, error,
                    project, dem, aligned_dem, transform, checks, iterPaths,
                    harness, n_images, apart >>

\* unaligned_cameras_df = _update_camera_data(project_file)
update_camera_data ==
    /\ pc = "_update_camera_data"
    /\ LET out == update_ba_camera_metadata(project,
                       fs[self.input_images_metadata_file].rows)
           fs1 == to_csv(fs, self.bundle_adjusted_metadata_file, CsvFile(out.ba))
       IN /\ fs' = to_csv(fs1, self.bundle_adjusted_unaligned_metadata_file,
                           CsvFile(out.unaligned))
          /\ writes' = writes \o
                << Write("_update_camera_data", self.bundle_adjusted_metadata_file),
                   Write("_update_camera_data",
                         self.bundle_adjusted_unaligned_metadata_file) >>
          /\ unaligned_cameras_df' = DOMAIN out.unaligned
    /\ trace' = Append(trace, Stage("_update_camera_data", FALSE,
                    <<self.input_images_metadata_file>>))
    /\ pc' = "_compare_camera_positions_1"
    /\ UNCHANGED << self, mode, iterations, export_orthomosaic, run_rotation,
                    i, rotation_enabled, updated_cameras, result, error,
                    project, dem, aligned_dem, transform, checks, iterPaths,
                    harness, n_images, apart >>

\* _compare_camera_positions when compute_point_offsets or plot_offsets
\* raises: nothing catches the exception, neither here nor in run
compare_camera_positions_raises(here, metadata_file_1, metadata_file_2, plot_file_name) ==
    /\ pc = here
    /\ TRUE \in ReportFailAnswers
    /\ trace' = Append(trace, Stage("_compare_camera_positions", FALSE,
                    <<metadata_file_1, metadata_file_2,
                      join(self.output_path, plot_file_name)>>))
    /\ Raise("ReportError")
    /\ UNCHANGED << self, fs, mode, iterations, export_orthomosaic,
                    run_rotation, i, rotation_enabled, updated_cameras, result,
                    project, dem, aligned_dem, transform, unaligned_cameras_df,
                    writes, checks, iterPaths, harness, n_images, apart >>

\* a bug that saves the plot under the name of the second snapshot
compare_camera_positions_overwrites(here, next, metadata_file_1, metadata_file_2, plot_file_name) ==
    /\ pc = here
    /\ FALSE \in ReportFailAnswers
    /\ fs' = to_csv(fs, metadata_file_2, OtherFile("png"))
    /\ writes' = Append(writes, Write("_compare_camera_positions", metadata_file_2))
    /\ trace' = Append(trace, Stage("_compare_camera_positions", FALSE,
                    <<metadata_file_1, metadata_file_2,
                      join(self.output_path, plot_file_name)>>))
    /\ pc' = next
    /\ UNCHANGED << self, mode, iterations, export_orthomosaic, run_rotation,
                    i, rotation_enabled, updated_cameras, result, error,
                    project, dem, aligned_dem, transform, unaligned_cameras_df,
                    checks, iterPaths, harness, n_images, apart >>

\* _compare_camera_positions(metadata_file_1, metadata_file_2, title, plot_file_name)
compare_camera_positions(here, next, metadata_file_1, metadata_file_2, plot_file_name) ==
    /\ pc = here
    /\ FALSE \in ReportFailAnswers
    /\ LET plot == join(self.output_path, plot_file_name)
       IN /\ fs' = to_csv(fs, plot, OtherFile("png"))
          /\ writes' = Append(writes, Write("_compare_camera_positions", plot))
          /\ trace' = Append(trace, Stage("_compare_camera_positions", FALSE,
                          <<metadata_file_1, metadata_file_2, plot>>))
    /\ pc' = next
    /\ UNCHANGED << self, mode, iterations, export_orthomosaic, run_rotation,
                    i, rotation_enabled, updated_cameras, result, error,
                    project, dem, aligned_dem, transform, unaligned_cameras_df,
                    checks, iterPaths, harness, n_images, apart >>

\* "Initial vs Bundle Adjusted"
compare_initial_vs_bundle_adj ==
    compare_camera_positions("_compare_camera_positions_1", "_pc_align_routine",
        self.input_images_metadata_file, self.bundle_adjusted_metadata_file,
        PlotNames[1])

compare_initial_vs_bundle_adj_raises ==
    compare_camera_positions_raises("_compare_camera_positions_1",
        self.input_images_metadata_file, self.bundle_adjusted_metadata_file,
        PlotNames[1])

\* _pc_align_routine(dem) when the DEM file does not exist:
\* rix.open_rasterio(dem) raises before anything is clipped or aligned
pc_align_routine_no_dem ==
    /\ pc = "_pc_align_routine"
    /\ dem = NoRaster
    /\ trace' = Append(trace, Stage("_pc_align_routine", FALSE, <<NoneValue>>))
    /\ Raise("RasterioIOError")
    /\ UNCHANGED << self, fs, mode, iterations, export_orthomosaic,
                    run_rotation, i, rotation_enabled, updated_cameras, result,
                    project, dem, aligned_dem, transform, unaligned_cameras_df,
                    writes, checks, iterPaths, harness, n_images, apart >>

\* aligned_dem_file, transform = _pc_align_routine(dem)
pc_align_routine ==
    /\ pc = "_pc_align_routine"
    /\ dem # NoRaster
    /\ IF contains(ReferenceBounds, dem)
          THEN /\ fs' = to_csv(fs, self.clipped_reference_dem_file, OtherFile("tif"))
               /\ writes' = Append(writes,
                      Write("_pc_align_routine", self.clipped_reference_dem_file))
               /\ trace' = Append(trace, Stage("_pc_align_routine", FALSE,
                      <<self.clipped_reference_dem_file>>))
          ELSE /\ trace' = Append(trace, Stage("_pc_align_routine", FALSE,
                      <<ReferenceDem>>))
               /\ UNCHANGED << fs, writes >>
    /\ \E b \in AlignedDemAnswers : aligned_dem' = b
    /\ \E t \in TransformAnswers : transform' = t
    /\ pc' = "_apply_transform_and_update_camera_data"
    /\ UNCHANGED << self, mode, iterations, export_orthomosaic, run_rotation,
                    i, rotation_enabled, updated_cameras, result, error,
                    project, dem, unaligned_cameras_df, checks, iterPaths,
                    harness, n_images, apart >>

\* df = _apply_transform_and_update_camera_data(transform): metadata_transform
\* writes the aligned snapshot, which is then read and saved again
apply_transform_and_update_camera_data ==
    /\ pc = "_apply_transform_and_update_camera_data"
    /\ LET path == self.aligned_bundle_adjusted_metadata_file
           rows == metadata_transform(
                       fs[self.bundle_adjusted_metadata_file].rows, transform)
           fs1 == to_csv(fs, path, CsvFile(rows))
       IN /\ fs' = to_csv(fs1, path, CsvFile(fs1[path].rows))
          /\ writes' = writes \o
                << Write("metadata_transform", path),
                   [stage |-> "_apply_transform_and_update_camera_data",
                    iter |-> i, path |-> path, existed |-> TRUE] >>
          /\ trace' = Append(trace, Stage("_apply_transform_and_update_camera_data",
                          FALSE, <<self.bundle_adjusted_metadata_file, path>>))
    /\ pc' = "_compare_camera_positions_2"
    /\ UNCHANGED << self, mode, iterations, export_orthomosaic, run_rotation,
                    i, rotation_enabled, updated_cameras, result, error,
                    project, dem, aligned_dem, transform, unaligned_cameras_df,
                    checks, iterPaths, harness, n_images, apart >>

\* "Bundle Adjusted vs Bundle Adjusted and Aligned"
compare_bundle_adj_vs_aligned ==
    compare_camera_positions("_compare_camera_positions_2", "_nuth_kaab_align_routine",
        self.bundle_adjusted_metadata_file,
        self.aligned_bundle_adjusted_metadata_file, PlotNames[2])

compare_bundle_adj_vs_aligned_raises ==
    compare_camera_positions_raises("_compare_camera_positions_2",
        self.bundle_adjusted_metadata_file,
        self.aligned_bundle_adjusted_metadata_file, PlotNames[2])

\* a run_command that logs to the working directory when given no directory
run_command_always_logs(log_directory) ==
    IF log_directory # NoneValue
      THEN join(log_directory, "dem_align.py_log.txt")
      ELSE << "dem_align.py_log.txt" >>

\* run_command(command, verbose, log_directory): the log file name if a log
\* directory is given, otherwise the function falls off its end (None)
run_command(log_directory) ==
    IF log_directory # NoneValue
      THEN join(log_directory, "dem_align.py_log.txt")
      ELSE NoneValue

\* dem_align_custom(reference_dem, dem_to_be_aligned, mode, ..., log_directory=None):
\* TRUE iff open(log_file_name) succeeds
dem_align_custom_ok(log_directory) == run_command(log_directory) # NoneValue

\* _nuth_kaab_align_routine(aligned_dem_file) when the aligned DEM file does
\* not exist: rix.open_rasterio(aligned_dem_file) raises before a reference
\* is chosen
nuth_kaab_align_routine_no_dem ==
    /\ pc = "_nuth_kaab_align_routine"
    /\ aligned_dem = NoRaster
    /\ trace' = Append(trace, Stage("_nuth_kaab_align_routine", FALSE, <<NoneValue>>))
    /\ Raise("RasterioIOError")
    /\ UNCHANGED << self, fs, mode, iterations, export_orthomosaic,
                    run_rotation, i, rotation_enabled, updated_cameras, result,
                    project, dem, aligned_dem, transform, unaligned_cameras_df,
                    writes, checks, iterPaths, harness, n_images, apart >>

\* _nuth_kaab_align_routine(aligned_dem_file): output_path is passed as
\* `mode`, log_directory keeps its default None
nuth_kaab_align_routine ==
    /\ pc = "_nuth_kaab_align_routine"
    /\ aligned_dem # NoRaster
    /\ trace' = Append(trace, Stage("_nuth_kaab_align_routine", FALSE,
           << IF contains(ReferenceBounds, aligned_dem)
                THEN self.clipped_reference_dem_file
                ELSE ReferenceDem >>))
    /\ ~ dem_align_custom_ok(NoneValue)
    /\ Raise("TypeError")
    /\ UNCHANGED << self, fs, mode, iterations, export_orthomosaic,
                    run_rotation, i, rotation_enabled, updated_cameras, result,
                    project, dem, aligned_dem, transform, unaligned_cameras_df,
                    writes, checks, iterPaths, harness, n_images, apart >>

Next ==
    \/ run_multi_iterate
    \/ run_multi_return
    \/ run_not_activated
    \/ run_activated
    \/ reset_yaw_pitch_roll
    \/ run_metashape_rejects
    \/ run_metashape
    \/ extract_orthomosaic
    \/ extract_dem
    \/ update_camera_data
    \/ compare_initial_vs_bundle_adj_raises
    \/ compare_initial_vs_bundle_adj
    \/ pc_align_routine_no_dem
    \/ pc_align_routine
    \/ apply_transform_and_update_camera_data
    \/ compare_bundle_adj_vs_aligned_raises
    \/ compare_bundle_adj_vs_aligned
    \/ nuth_kaab_align_routine_no_dem
    \/ nuth_kaab_align_routine

Spec == Init /\ [][Next]_vars

\* ---------------------------------------------------- a repeated call
\* After a call of run has ended, a second Pipeline is constructed with the
\* same arguments over the same initial files and run_multi is called on it
\* with the same export_orthomosaic; its collaborators answer as in call 1.
second_call ==
    /\ pc = "done"
    /\ call = 1
    /\ mode = "run"
    /\ first' = [first EXCEPT
                   !.rot = run_rotation, !.trace = trace, !.fs = fs,
                   !.result = result, !.error = error, !.checks = checks,
                   !.unaligned = project.unaligned, !.dem = dem,
                   !.aligned_dem = aligned_dem, !.transform = transform]
    /\ call' = 2
    /\ self' = PipelineInit(self.rotation_enabled)
    /\ rotation_enabled' = run_multi_rotation(self')
    /\ fs' = first.fs0
    /\ mode' = "run_multi"
    /\ pc' = "run_multi"
    /\ iterations' \in 1..MaxIter
    /\ run_rotation' = TRUE
    /\ i' = 0
    /\ updated_cameras' = Unbound
    /\ result' = NoResult
    /\ error' = "none"
    /\ project' = NoProject
    /\ dem' = NoRaster
    /\ aligned_dem' = NoRaster
    /\ transform' = 0
    /\ unaligned_cameras_df' = {}
    /\ trace' = <<>>
    /\ writes' = <<>>
    /\ checks' = <<>>
    /\ iterPaths' = <<>>
    /\ UNCHANGED << export_orthomosaic, n_images, apart >>

NextEq == Next \/ second_call

\* ------------------------------------------- another call, same object
\* After a call has ended, run or run_multi is called again on the same
\* Pipeline object over the files the first call left, with the same
\* export_orthomosaic and its collaborators answering as in call 1; the
\* history variables start again for the new call.
call_again ==
    /\ pc = "done"
    /\ call = 1
    /\ first' = [first EXCEPT
                   !.rot = run_rotation, !.trace = trace, !.fs = fs,
                   !.result = result, !.error = error, !.checks = checks,
                   !.unaligned = project.unaligned, !.dem = dem,
                   !.aligned_dem = aligned_dem, !.transform = transform]
    /\ call' = 2
    /\ mode' \in {"run", "run_multi"}
    /\ pc' = mode'
    /\ iterations' \in IF mode' = "run" THEN {0} ELSE 0..MaxIter
    /\ run_rotation' \in IF mode' = "run" THEN BOOLEAN ELSE {TRUE}
    /\ rotation_enabled' = run_multi_rotation(self)
    /\ i' = 0
    /\ updated_cameras' = Unbound
    /\ result' = NoResult
    /\ error' = "none"
    /\ project' = NoProject
    /\ dem' = NoRaster
    /\ aligned_dem' = NoRaster
    /\ transform' = 0
    /\ unaligned_cameras_df' = {}
    /\ trace' = <<>>
    /\ writes' = <<>>
    /\ checks' = <<>>
    /\ iterPaths' = <<>>
    /\ UNCHANGED << self, fs, export_orthomosaic, n_images, apart >>

NextSeq == Next \/ call_again

SpecSeq == Init /\ [][NextSeq]_vars

SpecEq == Init /\ [][NextEq]_vars

\* ==================================================================
\* hsfm.batch.batch
\* ==================================================================
\* a Pipeline exists and none of its methods is called
PipelineIdle ==
    /\ self = PipelineInit(FALSE)
    /\ rotation_enabled = run_multi_rotation(self)
    /\ fs = (InitialMetadataFile :> CsvFile(InitialSnapshot(0)))
              @@ (ReferenceDem :> OtherFile("tif"))
    /\ mode = "run"
    /\ pc = "idle"
    /\ iterations = 0
    /\ export_orthomosaic = FALSE
    /\ run_rotation = FALSE
    /\ i = 0
    /\ updated_cameras = Unbound
    /\ result = NoResult
    /\ error = "none"
    /\ project = NoProject
    /\ dem = NoRaster
    /\ aligned_dem = NoRaster
    /\ transform = 0
    /\ unaligned_cameras_df = {}
    /\ n_images = NumCameras
    /\ trace = <<>>
    /\ writes = <<>>
    /\ checks = <<>>
    /\ iterPaths = <<>>
    /\ call = 1
    /\ first = NoFirst(fs)

pipeline_vars ==
    << self, fs, pc, mode, iterations, export_orthomosaic, run_rotation, i,
       rotation_enabled, updated_cameras, result, error, project, dem,
       aligned_dem, transform, unaligned_cameras_df, n_images, trace, writes,
       checks, iterPaths, call, first >>

\* the longest camera position table and the largest image directory
MaxRecords == 3

\* (Longitude, Latitude) of a record of the camera position file
Positions == { <<0, 0>>, <<1, 0>>, <<0, 1>> }

\* hsfm.core.select_images_for_download: the selected records, in file order
Tables == UNION { [1..n -> Positions] : n \in 0..MaxRecords }

\* glob.glob: the .tif files of the image directory, in no particular order
Globs ==
    UNION { { g \in [1..n -> 1..n] : \A a, b \in 1..n : g[a] = g[b] => a = b }
            : n \in 0..MaxRecords }

RECURSIVE sorted(_)
sorted(s) ==
    IF s = << >> THEN << >>
    ELSE LET m == CHOOSE x \in { s[k] : k \in 1..Len(s) } :
                     \A k \in 1..Len(s) : x <= s[k]
         IN << m >> \o sorted(SelectSeq(s, LAMBDA x : x # m))

\* hsfm.geospatial.calculate_heading: the direction from p0 to p1
calculate_heading(p0_lon, p0_lat, p1_lon, p1_lat) ==
    << p1_lon - p0_lon, p1_lat - p0_lat >>

\* the heading an operator picks in hsfm.utils.pick_headings
PickedHeading == << 0, 0 >>

Row(p, h) == [Longitude |-> p[1], Latitude |-> p[2], heading |-> h]

\* hsfm.utils.pick_headings: the selected records with the picked headings
pick_headings(table) == [k \in 1..Len(table) |-> Row(table[k], PickedHeading)]

BatchRaise(b, e) == [b EXCEPT !.pc = "done", !.error = e]

\* one pass of "for i, v in enumerate(lats)" whose except branch appends
\* a fixed heading
for_lats_fixed_fallback(b) ==
    LET k == b.i + 1
    IN IF k + 1 <= Len(b.table)
       THEN LET heading == calculate_heading(b.table[k][1], b.table[k][2],
                                             b.table[k + 1][1], b.table[k + 1][2])
            IN [b EXCEPT !.heading = heading,
                         !.headings = Append(@, heading), !.i = k]
       ELSE [b EXCEPT !.headings = Append(@, PickedHeading), !.i = k]

\* one pass of "for i, v in enumerate(lats)": lons[i+1] raises IndexError on
\* the last record and the bare except appends the heading of the pass
\* before, which is unbound when there was no pass before
for_lats(b) ==
    LET k == b.i + 1
    IN IF k + 1 <= Len(b.table)
       THEN LET heading == calculate_heading(b.table[k][1], b.table[k][2],
                                             b.table[k + 1][1], b.table[k + 1][2])
            IN [b EXCEPT !.heading = heading,
                         !.headings = Append(@, heading), !.i = k]
       ELSE IF b.heading = Unbound
            THEN BatchRaise(b, "UnboundLocalError: heading")
            ELSE [b EXCEPT !.headings = Append(@, b.heading), !.i = k]

BatchStep(b) ==
    /\ batch' = b
    /\ UNCHANGED << pipeline_vars, cmd >>

\* batch.py lines 142-146
calculate_heading_from_metadata ==
    /\ batch.pc = "calculate_heading_from_metadata"
    /\ BatchStep([batch EXCEPT !.pc = "for_lats", !.i = 0, !.heading = Unbound,
                               !.headings = << >>])

\* batch.py lines 147-163
calculate_heading_from_metadata_for ==
    /\ batch.pc = "for_lats"
    /\ batch.i < Len(batch.table)
    /\ BatchStep(for_lats(batch))

\* batch.py lines 165-167
calculate_heading_from_metadata_return ==
    /\ batch.pc = "for_lats"
    /\ batch.i = Len(batch.table)
    /\ BatchStep([batch EXCEPT
          !.df = [k \in 1..Len(batch.table) |->
                     Row(batch.table[k], batch.headings[k])],
          !.has_df = TRUE,
          !.pc = IF batch.entry = "batch_generate_cameras"
                 THEN "check" ELSE "done"])

\* batch.py lines 92-98
batch_generate_cameras ==
    /\ batch.pc = "batch_generate_cameras"
    /\ BatchStep(
         IF batch.manual
         THEN [batch EXCEPT !.image_list = sorted(batch.globbed),
                            !.df = pick_headings(batch.table),
                            !.has_df = TRUE, !.pc = "check"]
         ELSE [batch EXCEPT !.image_list = sorted(batch.globbed),
                            !.pc = "calculate_heading_from_metadata"])

\* batch.py lines 101-103
batch_generate_cameras_check ==
    /\ batch.pc = "check"
    /\ BatchStep(
         IF Len(batch.image_list) # Len(batch.df)
         THEN BatchRaise(batch, "SystemExit(1)")
         ELSE [batch EXCEPT !.pc = "for_image_list", !.i = 0])

\* batch.py lines 105-121
batch_generate_cameras_for ==
    /\ batch.pc = "for_image_list"
    /\ batch.i < Len(batch.image_list)
    /\ LET k == batch.i + 1
           v == batch.image_list[k]
       IN BatchStep([batch EXCEPT
            !.calls = Append(@, [name |-> "prep_and_generate_gcp", image |-> v,
                                 position |-> << batch.df[k].Latitude,
                                                 batch.df[k].Longitude >>,
                                 heading |-> batch.df[k].heading]),
            !.principal_point_px = << v, v >>,
            !.i = k])

\* batch.py lines 123-129
batch_generate_cameras_initialize ==
    /\ batch.pc = "for_image_list"
    /\ batch.i = Len(batch.image_list)
    /\ BatchStep(
         IF batch.principal_point_px = Unbound
         THEN BatchRaise(batch, "UnboundLocalError: principal_point_px")
         ELSE [batch EXCEPT
                 !.calls = Append(@, [name |-> "initialize_cameras", image |-> 0,
                                      position |-> batch.principal_point_px,
                                      heading |-> << >>]),
                 !.pc = "generate_ba_cameras"])

\* batch.py lines 130-134
batch_generate_cameras_return ==
    /\ batch.pc = "generate_ba_cameras"
    /\ BatchStep([batch EXCEPT
            !.calls = Append(@, [name |-> "generate_ba_cameras", image |-> 0,
                                 position |-> << >>, heading |-> << >>]),
            !.pc = "done"])

InitBatch ==
    /\ PipelineIdle
    /\ cmd = CmdIdle
    /\ \E entry \in {"calculate_heading_from_metadata", "batch_generate_cameras"},
          table \in Tables, globbed \in Globs, manual \in BOOLEAN :
          /\ entry = "calculate_heading_from_metadata"
                => globbed = << >> /\ ~manual
          /\ batch = [BatchIdle EXCEPT !.pc = entry, !.entry = entry,
                                       !.table = table, !.globbed = globbed,
                                       !.manual = manual]

NextBatch ==
    \/ calculate_heading_from_metadata
    \/ calculate_heading_from_metadata_for
    \/ calculate_heading_from_metadata_return
    \/ batch_generate_cameras
    \/ batch_generate_cameras_check
    \/ batch_generate_cameras_for
    \/ batch_generate_cameras_initialize
    \/ batch_generate_cameras_return

SpecBatch == InitBatch /\ [][NextBatch]_vars

\* ==================================================================
\* hsfm.utils.run_command beside its child process
\* ==================================================================
\* the most output lines the child writes
MaxLines == 3

\* the k-th output line of the child
Line(k) == k

\* what readline returns at end of file
EndOfFile == 0

CmdStep(c) ==
    /\ cmd' = c
    /\ UNCHANGED << pipeline_vars, batch >>

\* utils.py lines 30-33 (and lines 36-39 with a log directory)
run_command_Popen ==
    /\ cmd.pc = "Popen"
    /\ CmdStep([cmd EXCEPT !.pc = "poll"])

\* the child writes its next line to the pipe
child_writes ==
    /\ cmd.pc # "Popen"
    /\ ~cmd.exited
    /\ cmd.emitted < MaxLines
    /\ CmdStep([cmd EXCEPT !.emitted = @ + 1,
                           !.pipe = Append(@, Line(cmd.emitted + 1))])

\* the child exits, leaving in the pipe what nobody has read
child_exits ==
    /\ cmd.pc # "Popen"
    /\ ~cmd.exited
    /\ CmdStep([cmd EXCEPT !.exited = TRUE])

\* utils.py lines 41 and 49: while p.poll() is None
run_command_poll ==
    /\ cmd.pc = "poll"
    /\ CmdStep([cmd EXCEPT !.pc = IF cmd.exited THEN "return" ELSE "readline"])

\* utils.py lines 42-45 and 50-52: readline waits for a line or for the end
\* of the file, then the line is printed and written
run_command_readline ==
    /\ cmd.pc = "readline"
    /\ cmd.pipe # << >> \/ cmd.exited
    /\ LET line == IF cmd.pipe # << >> THEN Head(cmd.pipe) ELSE EndOfFile
       IN CmdStep([cmd EXCEPT
            !.pipe = IF cmd.pipe # << >> THEN Tail(@) ELSE @,
            !.printed = IF cmd.verbose THEN Append(@, line) ELSE @,
            !.log = IF cmd.log_directory /\ line # EndOfFile
                    THEN Append(@, line) ELSE @,
            !.pc = "poll"])

\* utils.py line 46, or the end of the function without a log directory
run_command_return ==
    /\ cmd.pc = "return"
    /\ CmdStep([cmd EXCEPT !.pc = "done"])

InitCmd ==
    /\ PipelineIdle
    /\ batch = BatchIdle
    /\ \E log_directory \in BOOLEAN, verbose \in BOOLEAN :
          cmd = [CmdIdle EXCEPT !.pc = "Popen", !.log_directory = log_directory,
                                !.verbose = verbose]

NextCmd ==
    \/ run_command_Popen
    \/ child_writes
    \/ child_exits
    \/ run_command_poll
    \/ run_command_readline
    \/ run_command_return

cmd_reader == run_command_Popen \/ run_command_poll \/ run_command_readline
                \/ run_command_return

SpecCmd == InitCmd /\ [][NextCmd]_vars

\* the calling thread keeps running
SpecCmdFair == SpecCmd /\ WF_vars(cmd_reader)

TypeOK ==
    /\ pc \in {"run", "run_multi", "done", "_reset_yaw_pitch_roll", "_run_metashape",
               "_extract_orthomosaic", "_extract_dem", "_update_camera_data",
               "_compare_camera_positions_1", "_pc_align_routine",
               "_apply_transform_and_update_camera_data",
               "_compare_camera_positions_2", "_nuth_kaab_align_routine"}
    /\ error \in {"none", "TypeError", "ValueError", "UnboundLocalError"}
                   \cup EnvErrors
    /\ call \in 1..2
    /\ n_images \in {NumCameras, NumCameras + 1}
    /\ i \in 0..MaxIter

\* ==================================================================
\* Properties
\* ==================================================================
IsPrefix(a, b) ==
    /\ Len(a) <= Len(b)
    /\ \A k \in 1..Len(a) : a[k] = b[k]

\* the stage names of the run of iteration k, in invocation order
StagesOf(k) ==
    LET sel == SelectSeq(trace, LAMBDA e : e.iter = k)
    IN [n \in 1..Len(sel) |-> sel[n].stage]

WithoutStage(seq, name) == SelectSeq(seq, LAMBDA x : x # name)

\* the stage order of Pipeline.run as the source has it
StageOrder(export) ==
    << "_reset_yaw_pitch_roll", "_run_metashape" >>
    \o (IF export THEN << "_extract_orthomosaic" >> ELSE << >>)
    \o << "_extract_dem", "_update_camera_data", "_compare_camera_positions",
          "_pc_align_routine", "_apply_transform_and_update_camera_data",
          "_compare_camera_positions", "_nuth_kaab_align_routine",
          "_apply_nuth_transform_and_update_camera_data",
          "_compare_camera_positions", "_compare_camera_positions" >>
    \o (IF export THEN << "_export_aligned_orthomosaic" >> ELSE << >>)

\* the stage order as claim C1 states it (persisting the bundle-adjusted
\* snapshot counts as part of the bundle-adjustment stage)
ClaimedStageOrder(export) ==
    << "_reset_yaw_pitch_roll", "_run_metashape", "_extract_dem",
       "_compare_camera_positions", "_pc_align_routine",
       "_apply_transform_and_update_camera_data", "_compare_camera_positions",
       "_nuth_kaab_align_routine", "_apply_nuth_transform_and_update_camera_data",
       "_compare_camera_positions", "_compare_camera_positions" >>
    \o (IF export THEN << "_export_aligned_orthomosaic" >> ELSE << >>)

NuthFileOf(k) == join(join(OutputPath, ToString(k)), NuthedName)

InRun == pc \notin {"run_multi", "done"}

\* C2 (as claimed): whenever iteration i+1 of run_multi has started, the
\* input snapshot reference is the path of the final snapshot file of
\* iteration i, and that file exists.
C2_NextInputIsFinalSnapshot ==
    (mode = "run_multi" /\ i >= 1 /\ InRun) =>
        /\ self.input_images_metadata_file = NuthFileOf(i - 1)
        /\ NuthFileOf(i - 1) \in DOMAIN fs

\* C3 (as claimed): a call run_multi(iterations >= 1) in which nothing
\* outside the pipeline fails ends by returning the path of the final
\* snapshot file of the last iteration.
C3_ReturnsFinalPath ==
    (mode = "run_multi" /\ iterations >= 1 /\ pc = "done"
        /\ error \notin EnvErrors) =>
        /\ error = "none"
        /\ result = NuthFileOf(iterations - 1)

\* the camera-metadata snapshot files: the caller's metadata file and the
\* snapshot artifacts of any iteration or of a plain run
SnapshotNames == {BundleAdjustedName, UnalignedName, AlignedName, NuthedName}

IsSnapshotPath(path) ==
    \/ path = InitialMetadataFile
    \/ path[Len(path)] \in SnapshotNames

\* C4 (as claimed): no stage writes to a snapshot file that already exists.
C4_WriteOnce ==
    \A n \in 1..Len(writes) :
        IsSnapshotPath(writes[n].path) => ~ writes[n].existed

\* C4 (amended): a write to a snapshot file that already exists is either
\* _reset_yaw_pitch_roll rewriting the input snapshot of the run, or
\* _apply_transform_and_update_camera_data saving again the aligned snapshot
\* that metadata_transform created in the write just before; the
\* bundle-adjusted, unaligned and aligned snapshots are created as new files.
C4_WriteOnceExceptResetAndResave ==
    \A n \in 1..Len(writes) :
        (IsSnapshotPath(writes[n].path) /\ writes[n].existed) =>
            \/ /\ writes[n].stage = "_reset_yaw_pitch_roll"
               /\ writes[n].path = self.input_images_metadata_file
            \/ /\ writes[n].stage = "_apply_transform_and_update_camera_data"
               /\ n > 1
               /\ writes[n - 1].stage = "metadata_transform"
               /\ writes[n - 1].path = writes[n].path
               /\ writes[n - 1].iter = writes[n].iter
               /\ ~ writes[n - 1].existed

\* C4 witness: a run has written the bundle-adjusted, unaligned and aligned
\* snapshots after resetting the input snapshot
C4_Witness ==
    /\ \E n \in 1..Len(writes) : writes[n].stage = "_reset_yaw_pitch_roll"
    /\ \E n \in 1..Len(writes) :
          writes[n].stage = "_apply_transform_and_update_camera_data"
    /\ self.bundle_adjusted_metadata_file \in DOMAIN fs
    /\ self.bundle_adjusted_unaligned_metadata_file \in DOMAIN fs

\* C5 (as claimed): the artifact paths of two different iterations of one
\* run_multi call have no path in common.
C5_IterationPathsDisjoint ==
    \A a, b \in 1..Len(iterPaths) :
        a # b => iterPaths[a] \cap iterPaths[b] = {}

\* the co-registration invocations of iteration k that got as far as choosing
\* a reference DEM, and the point-cloud-alignment invocations
NuthStagesOf(k) ==
    SelectSeq(trace, LAMBDA e : /\ e.iter = k
                                /\ e.stage = "_nuth_kaab_align_routine"
                                /\ e.args # <<NoneValue>>)

PcAlignStagesOf(k) ==
    SelectSeq(trace, LAMBDA e : e.iter = k /\ e.stage = "_pc_align_routine")

\* C6 (as claimed): co-registration uses the clipped reference DEM iff the
\* point-cloud alignment of the same run clipped it, and then the clipped
\* file was written by that stage of this run.
C6_SameClippingDecision ==
    \A k \in 0..MaxIter :
        NuthStagesOf(k) # << >> =>
            LET nuth == NuthStagesOf(k)[1]
                pca == PcAlignStagesOf(k)[1]
                usesClipped == nuth.args[1] = self.clipped_reference_dem_file
            IN /\ usesClipped <=> (pca.args[1] = self.clipped_reference_dem_file)
               /\ usesClipped =>
                     \E n \in 1..Len(writes) :
                        /\ writes[n].stage = "_pc_align_routine"
                        /\ writes[n].iter = k
                        /\ writes[n].path = nuth.args[1]

SfmStages == SelectSeq(trace, LAMBDA e : e.stage = "_run_metashape")

NotActivatedIn(k) ==
    \E n \in 1..Len(checks) : checks[n].iter = k /\ ~ checks[n].activated

\* C9: a run whose activation check answered "not activated" invokes no
\* stage and no collaborator and writes no file.
C9_NotActivatedDoesNothing ==
    \A k \in 0..MaxIter :
        NotActivatedIn(k) =>
            /\ \A n \in 1..Len(trace) : trace[n].iter # k
            /\ \A n \in 1..Len(writes) : writes[n].iter # k

\* C9 witness: a call of run has ended after the engine reported that it is
\* not activated
C9_Witness ==
    /\ mode = "run"
    /\ pc = "done"
    /\ NotActivatedIn(0)
    /\ result = NoneValue

UnalignedPersisted ==
    (project.built /\ self.bundle_adjusted_metadata_file \in DOMAIN fs) =>
        /\ unaligned_cameras_df = project.unaligned
        /\ DOMAIN fs[self.bundle_adjusted_unaligned_metadata_file].rows
             = project.unaligned
        /\ DOMAIN fs[self.bundle_adjusted_metadata_file].rows
             \cap project.unaligned = {}

\* a path of iteration 0 of run_multi, taken back to the plain output path
Rebase(path) ==
    IF Len(path) >= 2 /\ path[1] = OutputPath[1] /\ path[2] = ToString(0)
      THEN << path[1] >> \o SubSeq(path, 3, Len(path))
      ELSE path

\* what a trace says was invoked: stage, rotation flag, rebased arguments
Invocations(t) ==
    [n \in 1..Len(t) |->
        << t[n].stage, t[n].rot,
           [a \in 1..Len(t[n].args) |-> Rebase(t[n].args[a])] >>]

Absent == [kind |-> "absent", rows |-> << >>]

FileIn(f, dir, name) ==
    IF join(dir, name) \in DOMAIN f THEN f[join(dir, name)] ELSE Absent

SameOutputs ==
    /\ Invocations(trace) = Invocations(first.trace)
    /\ \A name \in SnapshotNames :
          FileIn(fs, join(OutputPath, ToString(0)), name)
              = FileIn(first.fs, OutputPath, name)
    /\ fs[InitialMetadataFile] = first.fs[InitialMetadataFile]
    /\ result = first.result
    /\ error = first.error

ComparedCalls == call = 2 /\ pc = "done" /\ iterations = 1 /\ first.rot

RunEndedUndisturbed ==
    /\ mode = "run"
    /\ pc = "done"
    /\ project.built
    /\ error \notin EnvErrors

\* the offset reports invoked so far, as <<snapshot 1, snapshot 2, plot file>>
Reports ==
    LET sel == ReportsIn(trace)
    IN [n \in 1..Len(sel) |-> sel[n].args]

\* C11 (as claimed): when the SfM engine moved every camera by +1 and left
\* none unaligned, and the point-cloud transform was the identity, a run ends
\* with a final snapshot in which every camera's altitude is its initial
\* altitude + 3 (the co-registration shift being +2), and with an
\* initial-vs-final offset report over that snapshot.
C11_FinalAltitudePlusThree ==
    (RunEndedUndisturbed /\ project.unaligned = {} /\ transform = 0) =>
        LET final == self.nuthed_aligned_bundle_adjusted_metadata_file
        IN /\ final \in DOMAIN fs
           /\ \A c \in Cameras : fs[final].rows[c].alt = InitialAlt(c) + 3
           /\ \E n \in 1..Len(Reports) :
                 /\ Reports[n][1] = self.input_images_metadata_file
                 /\ Reports[n][2] = final

WrittenBy(stage, k, name) ==
    \E n \in 1..Len(writes) :
        /\ writes[n].stage = stage
        /\ writes[n].iter = k
        /\ writes[n].path[Len(writes[n].path)] = name

BundleAdjustedPersisted(k) ==
    /\ WrittenBy("_update_camera_data", k, BundleAdjustedName)
    /\ WrittenBy("_update_camera_data", k, UnalignedName)

\* the stages of iteration k invoked so far, as a set
StageSetOf(k) == { StagesOf(k)[n] : n \in 1..Len(StagesOf(k)) }

\* C13 (as claimed): whenever a run has invoked a stage after the SfM call
\* (DEM extraction or any later one), it has written the bundle-adjusted
\* snapshot and the unaligned-camera file.
C13_PersistedBeforeNextStage ==
    \A k \in 0..MaxIter :
        StageSetOf(k) \ {"_reset_yaw_pitch_roll", "_run_metashape",
                         "_update_camera_data"} # {}
            => BundleAdjustedPersisted(k)

\* C13 (amended): the bundle-adjusted snapshot and the unaligned-camera file
\* are written together by _update_camera_data, after the SfM call, the
\* extraction of the first orthomosaic (if export_orthomosaic) and the DEM
\* extraction have been invoked, and before offset report 1 or any later
\* stage is invoked.
C13_PersistedAfterDemBeforeReport ==
    \A k \in 0..MaxIter :
        /\ ( \/ WrittenBy("_update_camera_data", k, BundleAdjustedName)
             \/ WrittenBy("_update_camera_data", k, UnalignedName) )
              => /\ BundleAdjustedPersisted(k)
                 /\ {"_run_metashape", "_extract_dem"} \subseteq StageSetOf(k)
                 /\ export_orthomosaic => "_extract_orthomosaic" \in StageSetOf(k)
        /\ StageSetOf(k) \ {"_reset_yaw_pitch_roll", "_run_metashape",
                            "_extract_orthomosaic", "_extract_dem"} # {}
              => BundleAdjustedPersisted(k)

\* C13 witness: a run with export_orthomosaic has invoked offset report 1 over
\* the bundle-adjusted snapshot it wrote
C13_Witness ==
    /\ export_orthomosaic
    /\ Len(Reports) = 1
    /\ BundleAdjustedPersisted(0)
    /\ Reports[1][2] \in DOMAIN fs

\* C14 (as claimed): an offset report that raises does not end the run.
C14_ReportFailureNotFatal ==
    error # "ReportError"

\* the image directory and the caller's snapshot disagree about the number of
\* images (the reset keeps the rows of the snapshot)
CountsDiffer ==
    n_images # Cardinality(DOMAIN fs[InitialMetadataFile].rows)

\* C15 (as claimed): when the number of images differs from the number of
\* rows of the input snapshot, no stage or collaborator is invoked and no file
\* is written.
C15_CountMismatchAbortsFirst ==
    CountsDiffer => (trace = << >> /\ writes = << >>)

LastStageOf(k) == StagesOf(k)[Len(StagesOf(k))]

\* C16 (as claimed): when DEM extraction or point-cloud alignment has
\* returned without producing its DEM file, the run has halted at that
\* stage: it is the last stage invoked.
C16_HaltsAtMissingArtifact ==
    /\ ("_extract_dem" \in StageSetOf(0) /\ dem = NoRaster)
          => LastStageOf(0) = "_extract_dem"
    /\ (PcAlignStagesOf(0) # << >> /\ dem # NoRaster /\ aligned_dem = NoRaster)
          => LastStageOf(0) = "_pc_align_routine"

AtReport == pc \in {"_compare_camera_positions_1", "_compare_camera_positions_2"}

\* C18: a call of _compare_camera_positions leaves every Pipeline field and
\* every snapshot file as it was and creates no snapshot file; the locals of
\* run and run_multi that later stages and iterations read (DEMs, transform,
\* project, unaligned cameras, rotation flags, input reference) are unchanged
\* by it.
C18_ReportReadOnly ==
    [][ AtReport =>
          /\ self' = self
          /\ \A p \in DOMAIN fs : IsSnapshotPath(p) => (p \in DOMAIN fs' /\ fs'[p] = fs[p])
          /\ \A p \in (DOMAIN fs') \ (DOMAIN fs) : ~ IsSnapshotPath(p)
          /\ UNCHANGED << run_rotation, i, rotation_enabled, updated_cameras,
                          result, project, dem, aligned_dem, transform,
                          unaligned_cameras_df >> ]_vars

\* C18 witness: both offset reports of a run have been made and saved
C18_Witness ==
    /\ pc = "_nuth_kaab_align_routine"
    /\ Len(Reports) = 2
    /\ \A n \in 1..2 : Reports[n][3] \in DOMAIN fs

\* C20 (as claimed): in run_multi an activation check that answers "not
\* activated" is the last thing the call does: no later check is made, no
\* later iteration is started and the input snapshot reference still names
\* the snapshot it named before (for iteration 0, the caller's snapshot).
C20_NotActivatedIsFatal ==
    mode = "run_multi" =>
        \A n \in 1..Len(checks) :
            ~ checks[n].activated =>
                /\ n = Len(checks)
                /\ Len(iterPaths) = checks[n].iter + 1
                /\ checks[n].iter = 0 =>
                      self.input_images_metadata_file = InitialMetadataFile

\* every snapshot file that exists keeps its contents in this step
SnapshotsKept ==
    \A p \in DOMAIN fs :
        IsSnapshotPath(p) => (p \in DOMAIN fs' /\ fs'[p] = fs[p])

CollaboratorStages ==
    {"_run_metashape", "_extract_dem", "_pc_align_routine", "_nuth_kaab_align_routine"}

\* how often iteration k has invoked a stage
TimesInvoked(k, name) == Len(SelectSeq(StagesOf(k), LAMBDA s : s = name))

\* C21 (as claimed): in each run every external collaborator is invoked at
\* most once, and a collaborator that has failed (the engine refusing its
\* input, or a DEM-producing command returning without its raster) is the
\* last stage of the run that is invoked.
C21_NoRetryAndHaltAfterFailure ==
    /\ \A k \in 0..MaxIter : \A name \in CollaboratorStages :
          TimesInvoked(k, name) <= 1
    /\ error = "SfmError" => LastStageOf(0) = "_run_metashape"
    /\ (TimesInvoked(0, "_extract_dem") = 1 /\ dem = NoRaster)
          => LastStageOf(0) = "_extract_dem"
    /\ (PcAlignStagesOf(0) # << >> /\ dem # NoRaster /\ aligned_dem = NoRaster)
          => LastStageOf(0) = "_pc_align_routine"
    /\ error = "TypeError" => LastStageOf(0) = "_nuth_kaab_align_routine"

\* the collaborator-invocation part of C21, which does hold
AtMostOncePerRun ==
    \A k \in 0..MaxIter : \A name \in CollaboratorStages :
        TimesInvoked(k, name) <= 1

\* C22 (as claimed): a run with export_orthomosaic ends having invoked the
\* final orthomosaic export after offset report 4, on the final snapshot of
\* this run; a run without it invokes no orthomosaic stage at all.
C22_FinalOrthomosaicIffRequested ==
    RunEndedUndisturbed =>
        /\ export_orthomosaic <=>
              "_export_aligned_orthomosaic" \in StageSetOf(0)
        /\ export_orthomosaic =>
              /\ Len(Reports) = 4
              /\ LastStageOf(0) = "_export_aligned_orthomosaic"
              /\ self.nuthed_aligned_bundle_adjusted_metadata_file \in DOMAIN fs
        /\ ~ export_orthomosaic =>
              StageSetOf(0) \cap {"_extract_orthomosaic",
                                  "_export_aligned_orthomosaic"} = {}

\* the part of C22 about runs without export_orthomosaic, which does hold
NoOrthomosaicUnlessRequested ==
    ~ export_orthomosaic =>
        \A n \in 1..Len(trace) :
            trace[n].stage \notin {"_extract_orthomosaic",
                                   "_export_aligned_orthomosaic"}

\* rectangle b has no point outside rectangle a
Within(a, b) == a[1] <= b[1] /\ a[2] <= b[2] /\ b[3] <= a[3] /\ b[4] <= a[4]

\* rectangle b lies in the interior of rectangle a
StrictlyWithin(a, b) == a[1] < b[1] /\ a[2] < b[2] /\ b[3] < a[3] /\ b[4] < a[4]

\* the point-cloud alignment of iteration 0 clipped the reference DEM and
\* aligned against the clipped file
ClippedForAlignment ==
    /\ PcAlignStagesOf(0)[1].args[1] = self.clipped_reference_dem_file
    /\ \E n \in 1..Len(writes) :
          /\ writes[n].stage = "_pc_align_routine"
          /\ writes[n].path = self.clipped_reference_dem_file

\* the point-cloud alignment of iteration 0 used the full reference DEM and
\* wrote no clipped file
FullReferenceForAlignment ==
    /\ PcAlignStagesOf(0)[1].args[1] = ReferenceDem
    /\ \A n \in 1..Len(writes) : writes[n].stage # "_pc_align_routine"

\* a point-cloud alignment that could open the extracted DEM has been invoked
AlignmentInvoked == PcAlignStagesOf(0) # << >> /\ dem # NoRaster

\* C23 (as claimed): the reference DEM is clipped, and the clipped file used,
\* iff the extracted DEM lies strictly inside the reference footprint; with
\* equal footprints or a shared boundary edge the full reference is used and
\* no clipped file is written.
C23_ClippedIffStrictlyContained ==
    AlignmentInvoked =>
        IF StrictlyWithin(ReferenceBounds, dem)
          THEN ClippedForAlignment
          ELSE FullReferenceForAlignment

\* C23 (amended): the reference DEM is clipped, and the clipped file used,
\* iff no point of the extracted DEM's footprint lies outside the reference
\* footprint, which includes equal footprints and footprints that touch the
\* reference boundary from inside; otherwise the full reference is used and
\* no clipped file is written.
C23_ClippedIffContained ==
    AlignmentInvoked =>
        IF Within(ReferenceBounds, dem)
          THEN ClippedForAlignment
          ELSE FullReferenceForAlignment

\* C23 witness: the alignment clipped the reference for an extracted DEM whose
\* footprint touches the reference boundary
C23_Witness ==
    /\ AlignmentInvoked
    /\ Within(ReferenceBounds, dem)
    /\ ~ StrictlyWithin(ReferenceBounds, dem)
    /\ ClippedForAlignment

\* the caller's snapshot as it was before the call
OriginalRows == first.fs0[InitialMetadataFile].rows

\* C26: whenever the SfM engine is about to be invoked, the input snapshot
\* has yaw, pitch and roll 0 in every record and otherwise the records it
\* had (same number, same order, same altitude); and every SfM invocation is
\* directly preceded by _reset_yaw_pitch_roll of the same iteration on the
\* snapshot the engine is given.
C26_ResetBeforeSfm ==
    /\ pc = "_run_metashape" =>
          LET rows == fs[self.input_images_metadata_file].rows
          IN /\ DOMAIN rows = DOMAIN OriginalRows
             /\ \A c \in DOMAIN rows :
                   /\ rows[c].yaw = 0
                   /\ rows[c].pitch = 0
                   /\ rows[c].roll = 0
                   /\ rows[c].alt = OriginalRows[c].alt
    /\ \A n \in 1..Len(trace) :
          trace[n].stage = "_run_metashape" =>
             /\ n > 1
             /\ trace[n - 1].stage = "_reset_yaw_pitch_roll"
             /\ trace[n - 1].iter = trace[n].iter
             /\ trace[n - 1].args[1] = trace[n].args[1]

\* C26 witness: the SfM engine has been invoked on a snapshot that came with
\* non-zero orientation angles
C26_Witness ==
    /\ Len(SfmStages) = 1
    /\ OriginalRows[1].yaw # 0
    /\ fs[InitialMetadataFile].rows[1].yaw = 0

LogDirectories == {NoneValue, OutputPath, join(OutputPath, ToString(0))}

\* the co-registration invocations that got as far as dem_align_custom
CoregistrationCalls ==
    { n \in 1..Len(trace) : /\ trace[n].stage = "_nuth_kaab_align_routine"
                            /\ trace[n].args # <<NoneValue>> }

\* C27: run_command returns a log file path iff it is given a log directory,
\* and dem_align_custom gets past opening its log only then; every
\* co-registration the pipeline invokes calls it without one and is the last
\* thing the call does: it ends in TypeError with nothing returned.
C27_NoLogDirectoryNoResult ==
    /\ \A d \in LogDirectories :
          /\ (run_command(d) # NoneValue) <=> (d # NoneValue)
          /\ dem_align_custom_ok(d) <=> (d # NoneValue)
    /\ \A n \in CoregistrationCalls :
          /\ n = Len(trace)
          /\ pc = "done"
          /\ error = "TypeError"
          /\ result = NoResult

\* C27 witness: a run has called dem_align_custom and ended in TypeError
C27_Witness ==
    /\ CoregistrationCalls # {}
    /\ error = "TypeError"

\* C29: run_multi(iterations = 0) invokes no stage, writes nothing, makes no
\* activation check, leaves every Pipeline field as constructed, and ends in
\* UnboundLocalError without a result.
C29_ZeroIterations ==
    (mode = "run_multi" /\ iterations = 0) =>
        /\ trace = << >>
        /\ writes = << >>
        /\ checks = << >>
        /\ iterPaths = << >>
        /\ self = PipelineInit(self.rotation_enabled)
        /\ pc = "done" => (error = "UnboundLocalError" /\ result = NoResult)

\* C29 witness: a call run_multi(iterations = 0) has ended
C29_Witness ==
    /\ mode = "run_multi"
    /\ iterations = 0
    /\ pc = "done"
    /\ error = "UnboundLocalError"

\* ------------------------------------------------------------------
\* hsfm.batch.batch
\* ------------------------------------------------------------------
\* calculate_heading_from_metadata has returned its table
HeadingsFromMetadata == batch.has_df /\ ~batch.manual

\* calculate_heading_from_metadata has returned or raised
HeadingsEnded ==
    ~batch.manual /\ (batch.has_df \/ batch.error = "UnboundLocalError: heading")

HeadingBetween(t, k) ==
    calculate_heading(t[k][1], t[k][2], t[k + 1][1], t[k + 1][2])

\* C24: the table calculate_heading_from_metadata returns for n >= 2
\* records gives every record before the last the heading computed from it
\* to the next record, and the last record the heading of the one before it.
C24_LastHeadingRepeatsPrevious ==
    (HeadingsFromMetadata /\ Len(batch.table) >= 2) =>
        LET n == Len(batch.table)
        IN /\ Len(batch.df) = n
           /\ \A k \in 1..(n - 1) :
                 batch.df[k].heading = HeadingBetween(batch.table, k)
           /\ batch.df[n].heading = batch.df[n - 1].heading

C24_Witness ==
    /\ HeadingsFromMetadata
    /\ Len(batch.table) = 3
    /\ batch.df[1].heading # batch.df[2].heading
    /\ batch.df[3].heading = batch.df[2].heading
    /\ batch.df[3].heading # PickedHeading

\* C30: whenever calculate_heading_from_metadata has ended on a table of at
\* least one record it has returned one heading per record, the k-th taken
\* from records k and k+1, or from the two last records for the last one.
C30_OneHeadingPerRecord ==
    (HeadingsEnded /\ Len(batch.table) >= 1) =>
        LET n == Len(batch.table)
        IN /\ batch.has_df
           /\ Len(batch.df) = n
           /\ \A k \in 1..n :
                 /\ k < n => batch.df[k].heading = HeadingBetween(batch.table, k)
                 /\ (k = n /\ n >= 2) =>
                       batch.df[k].heading = HeadingBetween(batch.table, k - 1)

GcpCalls == SelectSeq(batch.calls, LAMBDA c : c.name = "prep_and_generate_gcp")

\* C25: a call of batch_generate_cameras that has ended either found the
\* image count different from the row count and exited with status 1 having
\* invoked no collaborator, or found them equal and generated the GCPs once
\* per image in sorted order before any camera initialization.
C25_CountCheckBeforeCollaborators ==
    (batch.entry = "batch_generate_cameras" /\ batch.pc = "done") =>
        IF Len(batch.globbed) # Len(batch.table)
        THEN batch.error = "SystemExit(1)" /\ batch.calls = << >>
        ELSE /\ Len(GcpCalls) = Len(batch.globbed)
             /\ \A k \in 1..Len(GcpCalls) : GcpCalls[k].image = k
             /\ \A k \in 1..Len(batch.calls) :
                   batch.calls[k].name = "initialize_cameras"
                      => k = Len(batch.globbed) + 1

\* C25 holds of every call in which the heading computation did not raise
C25_ApartFromHeadingFailure ==
    batch.error # "UnboundLocalError: heading" => C25_CountCheckBeforeCollaborators

\* ------------------------------------------------------------------
\* hsfm.utils.run_command
\* ------------------------------------------------------------------
EmittedLines == [k \in 1..cmd.emitted |-> Line(k)]

\* C28: when run_command with a log directory has returned, the log holds
\* every line the child wrote, in the order written.
C28_EveryLineLogged ==
    (cmd.pc = "done" /\ cmd.log_directory) => cmd.log = EmittedLines

\* the log never holds anything but a prefix of the child's output
C28_LogIsPrefix == IsPrefix(cmd.log, EmittedLines)

\* the reading loop ends once the child has exited
C28_LoopTerminates == cmd.exited ~> (cmd.pc = "done")

====
